---- MODULE Spec2Model ----
(***************************************************************************)
(* The hadith upload (ingestion) handler and the search handler of         *)
(* backend/main.go, with the three stores they work on: the Postgres       *)
(* tables, the embedder service and the Qdrant "documents" collection.     *)
(*                                                                         *)
(* A Go string is a sequence of bytes (naturals below 256); "" is <<>>.    *)
(* Identifier-like strings (collection code, title, display number, lang)  *)
(* are TLA+ strings.  A nullable SQL column is <<>> (NULL) or <<v>>.       *)
(*                                                                         *)
(* A handler runs between two remote calls without interference, so each   *)
(* remote call, with the local code up to the next one, is one action.     *)
(* Every remote call may fail (an error, a timeout of the 5 minute         *)
(* context, a cancelled request).  A SQL statement is atomic.  The         *)
(* embedder's answer is an input: an error, one vector per text, one       *)
(* vector too few, one too many, or vectors of another size.  The Qdrant   *)
(* collection has the vector size it was created with, by this process or  *)
(* before it, and refuses a point of any other size.  uuid.NewString()     *)
(* returns an identifier never returned before.  A panic of the handler is *)
(* answered by echo's Recover middleware with a 500.  calls records, per   *)
(* request, the remote calls issued and what they returned.  The index's   *)
(* answer to Search is an input: an error, or the first `limit` of some    *)
(* ranking of scored points, whose ids are numbers, uuids or absent.       *)
(***************************************************************************)
EXTENDS Integers, Sequences, FiniteSets, TLC

(* ------------------------------ constants ------------------------------ *)

\* const batchSize = 64
batchSize == 64

\* len(req.Hadiths) > 2000
MaxHadiths == 2000

\* ensureCollection(ctx, qClient, "documents", 768)
VectorSize == 768

\* snippet(d.Text, 280)
SnippetLen == 280

\* req.Limit = 10
DefaultLimit == 10

\* req.Limit > 50
MaxLimit == 50

(* -------------------------------- bounds -------------------------------- *)

\* number of upload requests in flight at once
NumReqs == 2

\* longest hadith list of a request whose records are enumerated freely
MaxSmallLen == 2

\* a vector size other than the one main declares for "documents"
OtherSize == 384

\* number of search requests in flight at once
NumSearches == 2

Reqs == 1..NumReqs

Searches == 1..NumSearches

(* ------------------------------- helpers ------------------------------- *)

Min(a, b) == IF a < b THEN a ELSE b

Range(s) == {s[k] : k \in 1..Len(s)}

(* --------------------------- pure functions ---------------------------- *)

\* func nullStr(s string) any
nullStr(s) == IF s = <<>> THEN <<>> ELSE <<s>>

\* func toTextArray(a []string) any
toTextArray(a) == IF Len(a) = 0 THEN <<>> ELSE <<a>>

\* func snippet(s string, n int) string
snippet(s, n) == IF Len(s) <= n THEN s ELSE SubSeq(s, 1, n)

\* a mutant of toPreferredText: Arabic preferred to English
toPreferredTextArFirst(h) ==
    IF h.ru # <<>> THEN [text |-> h.ru, lang |-> "ru"]
    ELSE IF h.ar # <<>> THEN [text |-> h.ar, lang |-> "ar"]
    ELSE IF h.en # <<>> THEN [text |-> h.en, lang |-> "en"]
    ELSE [text |-> <<>>, lang |-> ""]

\* func toPreferredText(h map[string]string) (text string, lang string)
toPreferredText(h) ==
    IF h.ru # <<>> THEN [text |-> h.ru, lang |-> "ru"]
    ELSE IF h.en # <<>> THEN [text |-> h.en, lang |-> "en"]
    ELSE IF h.ar # <<>> THEN [text |-> h.ar, lang |-> "ar"]
    ELSE [text |-> <<>>, lang |-> ""]

\* a mutant of TooMany: the cap excludes 2000
TooManyExclusive(n) == n >= MaxHadiths

\* len(req.Hadiths) > 2000
TooMany(n) == n > MaxHadiths

\* req.Collection.Code == "" || req.Collection.Title == "" || len(req.Hadiths) == 0
MissingFields(body) ==
    \/ body.collection.code = ""
    \/ body.collection.title = ""
    \/ Len(body.hadiths) = 0

(* ------------------------------ embedder ------------------------------- *)

\* the vector the embedding model computes for a text
Embedding(t) == [of |-> t, dim |-> VectorSize]

\* what the embedder service may answer to POST /embed with `texts`
EmbedderReplies(texts) ==
    LET honest == [k \in 1..Len(texts) |-> Embedding(texts[k])]
    IN  { [kind |-> "transport_error", status |-> 0, decodable |-> FALSE, embeddings |-> <<>>],
          [kind |-> "response", status |-> 500, decodable |-> TRUE, embeddings |-> <<>>],
          [kind |-> "response", status |-> 200, decodable |-> FALSE, embeddings |-> <<>>],
          [kind |-> "response", status |-> 200, decodable |-> TRUE, embeddings |-> honest],
          [kind |-> "response", status |-> 200, decodable |-> TRUE,
             embeddings |-> SubSeq(honest, 1, Len(honest) - 1)],
          [kind |-> "response", status |-> 200, decodable |-> TRUE,
             embeddings |-> Append(honest, Embedding(<<>>))],
          [kind |-> "response", status |-> 200, decodable |-> TRUE,
             embeddings |-> [k \in 1..Len(honest) |-> [honest[k] EXCEPT !.dim = OtherSize]]] }

\* a mutant of callEmbedder: a non-200 answer is decoded like a 200
callEmbedderIgnoreStatus(reply) ==
    IF reply.kind = "transport_error" THEN [err |-> TRUE, embeds |-> <<>>]
    ELSE IF ~reply.decodable THEN [err |-> TRUE, embeds |-> <<>>]
    ELSE [err |-> FALSE, embeds |-> reply.embeddings]

\* func callEmbedder(ctx, baseURL, texts) ([][]float32, error), given the reply
callEmbedder(reply) ==
    IF reply.kind = "transport_error" THEN [err |-> TRUE, embeds |-> <<>>]
    ELSE IF reply.status # 200 THEN [err |-> TRUE, embeds |-> <<>>]
    ELSE IF ~reply.decodable THEN [err |-> TRUE, embeds |-> <<>>]
    ELSE [err |-> FALSE, embeds |-> reply.embeddings]

(* ------------------------------- inputs -------------------------------- *)

TextAr == <<216>>
TextRu == <<209>>
TextEn == <<101>>

\* a text longer than a snippet
LongText == [k \in 1..(SnippetLen + 1) |-> 209]

Hadith(number, ar, ru, en) ==
    [number |-> number, text_ar |-> ar, text_ru |-> ru, text_en |-> en,
     grade |-> <<>>, topics |-> <<>>]

\* the records of a small request: every combination of the three variants,
\* and a second display number
SmallHadiths ==
    {Hadith("1", ar, ru, en) : ar \in {<<>>, TextAr}, ru \in {<<>>, TextRu},
                              en \in {<<>>, TextEn}}
    \cup {Hadith("2", <<>>, TextRu, <<>>)}

\* the record lists of the concurrent specification: a record with text and
\* one without, and two records with text
ConcHadithLists ==
    { <<Hadith("1", <<>>, TextRu, <<>>), Hadith("2", <<>>, <<>>, <<>>)>>,
      <<Hadith("1", <<>>, TextRu, <<>>), Hadith("2", TextAr, <<>>, <<>>)>> }

SeqsUpTo(S, n) == UNION {[1..m -> S] : m \in 0..n}

\* the k-th record of a long request, by pattern
BigHadith(pattern, k) ==
    LET b == k % 256
        none == [number |-> "n", text_ar |-> <<>>, text_ru |-> <<>>, text_en |-> <<>>,
                 grade |-> <<115>>, topics |-> << <<116>> >>]
    IN  IF pattern = "ru" THEN [none EXCEPT !.text_ru = <<209, b>>]
        ELSE IF pattern = "mixed" THEN
            IF k % 3 = 0 THEN none
            ELSE IF k % 3 = 1 THEN [none EXCEPT !.text_ru = <<209, b>>, !.text_en = <<101, b>>]
            ELSE [none EXCEPT !.text_ar = <<216, b>>]
        ELSE none

BigHadiths(pattern, n) == [k \in 1..n |-> BigHadith(pattern, k)]

Body(code, title, hs) ==
    [malformed |-> FALSE, collection |-> [code |-> code, title |-> title], hadiths |-> hs]

MalformedBody ==
    [malformed |-> TRUE, collection |-> [code |-> "", title |-> ""], hadiths |-> <<>>]

\* requests of the sequential specification: all small ones, one with a long
\* text, and long ones around the batch size and the cap
SeqBodies ==
    {MalformedBody}
    \cup {Body(c, t, hs) : c \in {"", "bukhari"}, t \in {"", "Sahih al-Bukhari"},
                           hs \in SeqsUpTo(SmallHadiths, MaxSmallLen)}
    \cup {Body("bukhari", "Sahih al-Bukhari", <<Hadith("1", <<>>, LongText, <<>>)>>)}
    \cup {Body("bukhari", "Sahih al-Bukhari", BigHadiths("ru", n)) :
             n \in {batchSize, batchSize + 1, 2 * batchSize + 2}}
    \cup {Body("bukhari", "Sahih al-Bukhari", BigHadiths("mixed", 3 * batchSize + 3))}
    \cup {Body("bukhari", "Sahih al-Bukhari", BigHadiths("none", n)) :
             n \in {MaxHadiths, MaxHadiths + 1}}

\* requests of the concurrent specification
ConcBodies ==
    {MalformedBody, Body("", "A", <<>>)}
    \cup {Body("bukhari", t, hs) : t \in {"A", "B"}, hs \in ConcHadithLists}
    \cup {Body("muslim", "A", <<Hadith("1", <<>>, TextRu, <<>>)>>),
          Body("bukhari", "A", <<Hadith("1", <<>>, <<>>, <<>>)>>)}

(* -------------------------------- state -------------------------------- *)

VARIABLES
    hadith_collections,  \* table hadith_collections: set of rows
    collections_id_seq,  \* last value of its SERIAL id
    hadiths,             \* table hadiths: set of rows
    hadiths_id_seq,      \* last value of its SERIAL id
    documents,           \* the points of the Qdrant collection "documents"
    documents_size,      \* the vector size "documents" was created with
    uuids,               \* number of identifiers uuid.NewString() has issued
    pc,                  \* per request: where its handler stands
    req,                 \* per request: the bound HadithUploadRequest
    collectionID,        \* per request: var collectionID int64
    rows,                \* per request: rows []row
    docs,                \* per request: docs []doc
    i,                   \* per request: the batch loop's i
    points,              \* per request: points of the batch being upserted
    upserted,            \* per request: upserted
    response,            \* per request: the HTTP response written
    calls,               \* per request: the remote calls issued so far
    spc,                 \* per search: where its handler stands
    sbody,               \* per search: the request as it arrived
    sreq,                \* per search: req, the bound searchRequest
    vector,              \* per search: vector := embeds[0]
    sresponse,           \* per search: the HTTP response written
    scalls               \* per search: the remote calls issued so far

vars == <<hadith_collections, collections_id_seq, hadiths, hadiths_id_seq, documents,
          documents_size, uuids, pc, req, collectionID, rows, docs, i, points, upserted,
          response, calls, spc, sbody, sreq, vector, sresponse, scalls>>

stores == <<hadith_collections, collections_id_seq, hadiths, hadiths_id_seq, documents,
            documents_size>>
locals == <<collectionID, rows, docs, i, points, upserted>>

\* the state of the upload handlers, and that of the search handlers
uploads == <<uuids, pc, req, locals, response, calls>>
searches == <<spc, sbody, sreq, vector, sresponse, scalls>>

NoResponse == [status |-> 0, body |-> [none |-> TRUE]]

jsonError(status, msg) == [status |-> status, body |-> [error |-> msg]]

jsonCounts(inserted, embedded) ==
    [status |-> 200, body |-> [inserted |-> inserted, embedded |-> embedded]]

\* a search request that could not be bound
MalformedSearch == [malformed |-> TRUE, query |-> <<>>, limit |-> 0]

\* one remote call: what was sent (texts, points) and what came back (ok, id, embeds)
Call(op, ok, texts, pts, id, embeds) ==
    [op |-> op, ok |-> ok, texts |-> texts, points |-> pts, id |-> id, embeds |-> embeds]

\* func ensureCollection: CreateCollection with `size`, or AlreadyExists, the
\* collection then keeping the size it has
ensureCollection(size) == {size, OtherSize}

Init ==
    /\ documents_size \in ensureCollection(VectorSize)
    /\ hadith_collections = {}
    /\ collections_id_seq = 0
    /\ hadiths = {}
    /\ hadiths_id_seq = 0
    /\ documents = {}
    /\ uuids = 0
    /\ pc = [r \in Reqs |-> "idle"]
    /\ req = [r \in Reqs |-> MalformedBody]
    /\ collectionID = [r \in Reqs |-> 0]
    /\ rows = [r \in Reqs |-> <<>>]
    /\ docs = [r \in Reqs |-> <<>>]
    /\ i = [r \in Reqs |-> 0]
    /\ points = [r \in Reqs |-> <<>>]
    /\ upserted = [r \in Reqs |-> 0]
    /\ response = [r \in Reqs |-> NoResponse]
    /\ calls = [r \in Reqs |-> <<>>]
    /\ spc = [s \in Searches |-> "idle"]
    /\ sbody = [s \in Searches |-> MalformedSearch]
    /\ sreq = [s \in Searches |-> MalformedSearch]
    /\ vector = [s \in Searches |-> Embedding(<<>>)]
    /\ sresponse = [s \in Searches |-> NoResponse]
    /\ scalls = [s \in Searches |-> <<>>]

\* return c.JSON(...)
Respond(r, resp) ==
    /\ pc' = [pc EXCEPT ![r] = "done"]
    /\ response' = [response EXCEPT ![r] = resp]

(* --------------------- POST /v1/admin/hadiths/upload -------------------- *)

\* c.Bind and the admission checks; requests are numbered as they arrive
Upload(r, body) ==
    /\ pc[r] = "idle"
    /\ \A q \in 1..(r - 1) : pc[q] # "idle"
    /\ req' = [req EXCEPT ![r] = body]
    /\ IF body.malformed THEN Respond(r, jsonError(400, "bad request"))
       ELSE IF MissingFields(body) THEN Respond(r, jsonError(400, "missing fields"))
       ELSE IF TooMany(Len(body.hadiths))
            THEN Respond(r, jsonError(400, "too many hadiths in one upload"))
       ELSE /\ pc' = [pc EXCEPT ![r] = "upsert_collection"]
            /\ UNCHANGED response
    /\ UNCHANGED <<stores, uuids, locals, calls, searches>>

\* a mutant of UpsertCollectionRow: a plain INSERT, no ON CONFLICT clause
UpsertCollectionRowInsertOnly(tbl, seq, code, title) ==
    [tbl |-> tbl \cup {[id |-> seq + 1, code |-> code, title |-> title]},
     seq |-> seq + 1, id |-> seq + 1]

\* INSERT INTO hadith_collections(code, title) VALUES ($1, $2)
\* ON CONFLICT (code) DO UPDATE SET title = EXCLUDED.title RETURNING id
UpsertCollectionRow(tbl, seq, code, title) ==
    LET old == {c \in tbl : c.code = code}
    IN  IF old = {}
        THEN [tbl |-> tbl \cup {[id |-> seq + 1, code |-> code, title |-> title]},
              seq |-> seq + 1, id |-> seq + 1]
        ELSE [tbl |-> (tbl \ old) \cup {[c EXCEPT !.title = title] : c \in old},
              seq |-> seq, id |-> (CHOOSE c \in old : TRUE).id]

\* the collection upsert: one QueryRow, which may fail
UpsertCollection(r) ==
    /\ pc[r] = "upsert_collection"
    /\ \E ok \in BOOLEAN :
         LET c == req[r].collection
             u == UpsertCollectionRow(hadith_collections, collections_id_seq, c.code, c.title)
         IN  /\ calls' = [calls EXCEPT ![r] =
                    Append(@, Call("upsert_collection", ok, <<>>, <<>>, IF ok THEN u.id ELSE 0, <<>>))]
             /\ IF ok
                THEN /\ hadith_collections' = u.tbl
                     /\ collections_id_seq' = u.seq
                     /\ collectionID' = [collectionID EXCEPT ![r] = u.id]
                     /\ pc' = [pc EXCEPT ![r] = "insert_hadith"]
                     /\ UNCHANGED response
                ELSE /\ Respond(r, jsonError(500, "db upsert collection failed"))
                     /\ UNCHANGED <<hadith_collections, collections_id_seq, collectionID>>
    /\ UNCHANGED <<hadiths, hadiths_id_seq, documents, documents_size, uuids, req, rows,
                   docs, i, points, upserted, searches>>

\* the row INSERT INTO hadiths ... stores for the request's record h
HadithRow(id, cid, h) ==
    [id |-> id, collection_id |-> cid, number |-> h.number,
     text_ar |-> nullStr(h.text_ar), text_ru |-> nullStr(h.text_ru),
     text_en |-> nullStr(h.text_en), grade |-> nullStr(h.grade),
     topics |-> toTextArray(h.topics)]

\* a mutant of Row: the id RETURNING gives is not kept
RowZeroId(id, h) ==
    [ID |-> 0, Number |-> h.number, TextAr |-> h.text_ar, TextRu |-> h.text_ru,
     TextEn |-> h.text_en, Grade |-> h.grade, Topics |-> h.topics]

\* rows = append(rows, row{...})
Row(id, h) ==
    [ID |-> id, Number |-> h.number, TextAr |-> h.text_ar, TextRu |-> h.text_ru,
     TextEn |-> h.text_en, Grade |-> h.grade, Topics |-> h.topics]

\* a mutant of SelectDocs: a record with no text is kept
SelectDocsKeepEmpty(rws) ==
    LET sel(rw) == toPreferredText([ru |-> rw.TextRu, en |-> rw.TextEn, ar |-> rw.TextAr])
    IN  [k \in 1..Len(rws) |->
            [ID |-> rws[k].ID, Text |-> sel(rws[k]).text, Lang |-> sel(rws[k]).lang,
             Number |-> rws[k].Number]]

\* the loop that builds docs from rows
SelectDocs(rws) ==
    LET sel(rw) == toPreferredText([ru |-> rw.TextRu, en |-> rw.TextEn, ar |-> rw.TextAr])
        kept == SelectSeq(rws, LAMBDA rw : sel(rw).text # <<>>)
    IN  [k \in 1..Len(kept) |->
            [ID |-> kept[k].ID, Text |-> sel(kept[k]).text, Lang |-> sel(kept[k]).lang,
             Number |-> kept[k].Number]]

\* a mutant of NoDocs: no early answer, the batch loop is entered
NoDocsNever(ds) == FALSE

\* if len(docs) == 0
NoDocs(ds) == Len(ds) = 0

\* a mutant of InsertFailed: the insert is tried again
InsertFailedRetry(r) ==
    UNCHANGED <<pc, response, hadiths, hadiths_id_seq, rows, docs>>

\* a mutant of InsertFailed: the request's inserts are rolled back
InsertFailedRollback(r) ==
    /\ Respond(r, jsonError(500, "db insert hadith failed"))
    /\ hadiths' = {h \in hadiths : \A k \in 1..Len(rows[r]) : rows[r][k].ID # h.id}
    /\ UNCHANGED <<hadiths_id_seq, rows, docs>>

\* if err != nil { return c.JSON(500, "db insert hadith failed") }
InsertFailed(r) ==
    /\ Respond(r, jsonError(500, "db insert hadith failed"))
    /\ UNCHANGED <<hadiths, hadiths_id_seq, rows, docs>>

\* one iteration of the insert loop: one QueryRow, which may fail; after the
\* last record, the selection of docs and the early answer when none is left
InsertHadith(r) ==
    /\ pc[r] = "insert_hadith"
    /\ \E ok \in BOOLEAN :
         LET k == Len(rows[r]) + 1
             h == req[r].hadiths[k]
             id == hadiths_id_seq + 1
             rws == Append(rows[r], Row(id, h))
             ds == SelectDocs(rws)
         IN  /\ calls' = [calls EXCEPT ![r] =
                    Append(@, Call("insert_hadith", ok, <<>>, <<>>, IF ok THEN id ELSE 0, <<>>))]
             /\ IF ok
                THEN /\ hadiths' = hadiths \cup {HadithRow(id, collectionID[r], h)}
                     /\ hadiths_id_seq' = id
                     /\ rows' = [rows EXCEPT ![r] = rws]
                     /\ IF k < Len(req[r].hadiths)
                        THEN UNCHANGED <<pc, response, docs>>
                        ELSE /\ docs' = [docs EXCEPT ![r] = ds]
                             /\ IF NoDocs(ds)
                                THEN Respond(r, jsonCounts(Len(rws), 0))
                                ELSE /\ pc' = [pc EXCEPT ![r] = "embed"]
                                     /\ UNCHANGED response
                ELSE InsertFailed(r)
    /\ UNCHANGED <<hadith_collections, collections_id_seq, documents, documents_size,
                   uuids, req, collectionID, i, points, upserted, searches>>

\* a mutant of NewUuid: the identifier is the point's place in its batch
NewUuidByPlace(issued, k) == k

\* uuid.NewString(), the k-th after `issued` were issued: a fresh identifier
NewUuid(issued, k) == issued + k

\* payload and point built for doc d and vector vec
Point(id, d, vec, code) ==
    [id |-> id, vector |-> vec,
     payload |-> [origin_type |-> "hadith", origin_id |-> d.ID, collection_code |-> code,
                  number |-> d.Number, lang |-> d.Lang,
                  title |-> "Hadith " \o d.Number \o " (" \o code \o ")",
                  snippet |-> snippet(d.Text, SnippetLen)]]

\* batch := docs[i:j]
Batch(ds, from) == SubSeq(ds, from + 1, Min(from + batchSize, Len(ds)))

\* texts of a batch
Texts(batch) == [k \in 1..Len(batch) |-> batch[k].Text]

\* a mutant of EmbedFailed: the failed batch is skipped and the loop goes on
EmbedFailedSkip(r) ==
    /\ IF i[r] + batchSize < Len(docs[r])
       THEN /\ pc' = [pc EXCEPT ![r] = "embed"]
            /\ UNCHANGED response
       ELSE Respond(r, jsonCounts(Len(rows[r]), upserted[r]))
    /\ i' = [i EXCEPT ![r] = @ + batchSize]
    /\ UNCHANGED <<points, uuids>>

\* if err != nil { return c.JSON(502, "embedder failed") }
EmbedFailed(r) ==
    /\ Respond(r, jsonError(502, "embedder failed"))
    /\ UNCHANGED <<points, uuids, i>>

\* one callEmbedder of the batch loop and the points built from its result;
\* batch[k] beyond the batch panics, which echo's Recover answers with a 500
EmbedBatch(r) ==
    /\ pc[r] = "embed"
    /\ LET batch == Batch(docs[r], i[r])
           texts == Texts(batch)
       IN  \E reply \in EmbedderReplies(texts) :
             LET res == callEmbedder(reply)
                 embeds == res.embeds
             IN  /\ calls' = [calls EXCEPT ![r] =
                        Append(@, Call("embed", ~res.err, texts, <<>>, 0, embeds))]
                 /\ IF res.err
                    THEN EmbedFailed(r)
                    ELSE IF Len(embeds) > Len(batch)
                    THEN /\ Respond(r, jsonError(500, "Internal Server Error"))
                         /\ uuids' = uuids + Len(batch)
                         /\ UNCHANGED <<points, i>>
                    ELSE /\ points' = [points EXCEPT ![r] =
                                [k \in 1..Len(embeds) |->
                                    Point(NewUuid(uuids, k), batch[k], embeds[k],
                                          req[r].collection.code)]]
                         /\ uuids' = uuids + Len(embeds)
                         /\ pc' = [pc EXCEPT ![r] = "upsert"]
                         /\ UNCHANGED <<response, i>>
    /\ UNCHANGED <<stores, req, collectionID, rows, docs, upserted, searches>>

\* Qdrant's upsert: a point replaces the stored point with its id
QdrantUpsert(coll, pts) ==
    {p \in coll : \A k \in 1..Len(pts) : pts[k].id # p.id} \cup Range(pts)

\* whether Upsert may succeed: Qdrant refuses the batch when a vector has
\* not the size of the collection; any Upsert may fail
UpsertOutcomes(size, pts) ==
    IF \A k \in 1..Len(pts) : pts[k].vector.dim = size THEN BOOLEAN ELSE {FALSE}

\* a mutant of Upserted: counts the batch, not the points built
UpsertedByBatch(n, pts, batch) == n + Len(batch)

\* upserted += len(points)
Upserted(n, pts, batch) == n + Len(pts)

\* a mutant of UpsertFailed: the failed batch is skipped and the loop goes on
UpsertFailedSkip(r) ==
    /\ IF i[r] + batchSize < Len(docs[r])
       THEN /\ pc' = [pc EXCEPT ![r] = "embed"]
            /\ UNCHANGED response
       ELSE Respond(r, jsonCounts(Len(rows[r]), upserted[r]))
    /\ i' = [i EXCEPT ![r] = @ + batchSize]
    /\ UNCHANGED <<documents, upserted>>

\* if err != nil { return c.JSON(502, "qdrant upsert failed") }
UpsertFailed(r) ==
    /\ Respond(r, jsonError(502, "qdrant upsert failed"))
    /\ UNCHANGED <<documents, upserted, i>>

\* the Upsert of the batch loop, which may fail, and the final answer
UpsertBatch(r) ==
    /\ pc[r] = "upsert"
    /\ \E ok \in UpsertOutcomes(documents_size, points[r]) :
         LET n == Upserted(upserted[r], points[r], Batch(docs[r], i[r]))
         IN  /\ calls' = [calls EXCEPT ![r] =
                    Append(@, Call("qdrant_upsert", ok, <<>>, points[r], 0, <<>>))]
             /\ IF ok
                THEN /\ documents' = QdrantUpsert(documents, points[r])
                     /\ upserted' = [upserted EXCEPT ![r] = n]
                     /\ i' = [i EXCEPT ![r] = @ + batchSize]
                     /\ IF i[r] + batchSize < Len(docs[r])
                        THEN /\ pc' = [pc EXCEPT ![r] = "embed"]
                             /\ UNCHANGED response
                        ELSE Respond(r, jsonCounts(Len(rows[r]), n))
                ELSE UpsertFailed(r)
    /\ UNCHANGED <<hadith_collections, collections_id_seq, hadiths, hadiths_id_seq,
                   documents_size, uuids, req, collectionID, rows, docs, points, searches>>

(* ---------------------------- POST /v1/search --------------------------- *)

QueryText == <<109>>

SearchBody(query, limit) == [malformed |-> FALSE, query |-> query, limit |-> limit]

\* the search requests: no query or one, limits around 0, 10 and 50
SearchBodies ==
    {MalformedSearch}
    \cup {SearchBody(q, l) : q \in {<<>>, QueryText},
                             l \in {-1, 0, 1, 5, DefaultLimit, MaxLimit, MaxLimit + 1}}

NumId(n) == [kind |-> "num", num |-> n, uuid |-> <<>>]
UuidId(u) == [kind |-> "uuid", num |-> 0, uuid |-> u]
NoId == [kind |-> "none", num |-> 0, uuid |-> <<>>]

\* a point of a Search answer
ScoredPoint(id, score, payload) == [id |-> id, score |-> score, payload |-> payload]

\* rankings of the index: none, one point, and three points whose ids, scores
\* and payloads are in no common order
Rankings ==
    LET a == ScoredPoint(NumId(420), 9, [origin_id |-> 2, lang |-> "ru"])
        b == ScoredPoint(UuidId(<<117, 49>>), 5, [origin_id |-> 3, lang |-> "ar"])
        c == ScoredPoint(NoId, 7, [origin_id |-> 1, lang |-> "en"])
    IN  {<<>>, <<a>>, <<b, a, c>>}

\* what Search may answer for `vec` and `limit`: an error, which is all a
\* vector of another size than the collection's gets, or the first `limit`
\* points of a ranking
SearchReplies(size, vec, limit) ==
    {[ok |-> FALSE, result |-> <<>>]}
    \cup IF vec.dim # size THEN {}
         ELSE {[ok |-> TRUE, result |-> SubSeq(rk, 1, Min(limit, Len(rk)))] : rk \in Rankings}

\* one remote call of a search: what was sent and what came back
SCall(op, ok, texts, embeds, vec, limit, result) ==
    [op |-> op, ok |-> ok, texts |-> texts, embeds |-> embeds, vector |-> vec,
     limit |-> limit, result |-> result]

\* return c.JSON(...)
SRespond(s, resp) ==
    /\ spc' = [spc EXCEPT ![s] = "done"]
    /\ sresponse' = [sresponse EXCEPT ![s] = resp]

\* a mutant of EmptyQuery: a query is never taken for empty
EmptyQueryNever(q) == FALSE

\* req.Query == ""
EmptyQuery(q) == q = <<>>

\* a mutant of ClampLimit: 0 is let through
ClampLimitZero(limit) == IF limit < 0 \/ limit > MaxLimit THEN DefaultLimit ELSE limit

\* if req.Limit <= 0 || req.Limit > 50 { req.Limit = 10 }
ClampLimit(limit) == IF limit <= 0 \/ limit > MaxLimit THEN DefaultLimit ELSE limit

\* c.Bind, the check of the query and the clamp of the limit; requests are
\* numbered as they arrive
Search(s, body) ==
    /\ spc[s] = "idle"
    /\ \A q \in 1..(s - 1) : spc[q] # "idle"
    /\ sbody' = [sbody EXCEPT ![s] = body]
    /\ IF body.malformed
       THEN /\ SRespond(s, jsonError(400, "bad request"))
            /\ sreq' = [sreq EXCEPT ![s] = body]
       ELSE IF EmptyQuery(body.query)
       THEN /\ SRespond(s, jsonError(400, "empty query"))
            /\ sreq' = [sreq EXCEPT ![s] = body]
       ELSE /\ sreq' = [sreq EXCEPT ![s] = [body EXCEPT !.limit = ClampLimit(body.limit)]]
            /\ spc' = [spc EXCEPT ![s] = "embed"]
            /\ UNCHANGED sresponse
    /\ UNCHANGED <<stores, uploads, vector, scalls>>

\* callEmbedder(ctx, deps.EmbedderURL, []string{req.Query}) and the checks of
\* its result
SearchEmbed(s) ==
    /\ spc[s] = "embed"
    /\ LET texts == <<sreq[s].query>>
       IN  \E reply \in EmbedderReplies(texts) :
             LET res == callEmbedder(reply)
                 embeds == res.embeds
             IN  /\ scalls' = [scalls EXCEPT ![s] =
                        Append(@, SCall("embed", ~res.err, texts, embeds, Embedding(<<>>), 0, <<>>))]
                 /\ IF res.err
                    THEN /\ SRespond(s, jsonError(502, "embedder failed"))
                         /\ UNCHANGED vector
                    ELSE IF Len(embeds) = 0
                    THEN /\ SRespond(s, jsonError(500, "no embedding returned"))
                         /\ UNCHANGED vector
                    ELSE /\ vector' = [vector EXCEPT ![s] = embeds[1]]
                         /\ spc' = [spc EXCEPT ![s] = "search"]
                         /\ UNCHANGED sresponse
    /\ UNCHANGED <<stores, uploads, sbody, sreq>>

RECURSIVE Decimal(_)
\* fmt.Sprintf("%d", n) of an unsigned n: its decimal digits
Decimal(n) == IF n < 10 THEN <<48 + n>> ELSE Append(Decimal(n \div 10), 48 + (n % 10))

\* the switch on r.Id.PointIdOptions
resultID(id) ==
    IF id.kind = "num" THEN Decimal(id.num)
    ELSE IF id.kind = "uuid" THEN id.uuid
    ELSE <<>>

\* searchResult{ID: id, Score: r.Score, Payload: resultPayload}
searchResult(r) ==
    [ID |-> resultID(r.id), Score |-> r.score,
     Payload |-> [k \in DOMAIN r.payload |-> r.payload[k]]]

\* a mutant of Results: the results are sorted by score
ResultsByScore(result) ==
    LET by == CHOOSE f \in [1..Len(result) -> 1..Len(result)] :
                 /\ \A a, b \in 1..Len(result) : a # b => f[a] # f[b]
                 /\ \A a, b \in 1..Len(result) : a < b => result[f[a]].score >= result[f[b]].score
    IN  [k \in 1..Len(result) |-> searchResult(result[by[k]])]

\* for _, r := range sp.Result { ... results = append(results, ...) }
Results(result) == [k \in 1..Len(result) |-> searchResult(result[k])]

\* c.JSON(http.StatusOK, map[string]any{"results": results})
jsonResults(results) == [status |-> 200, body |-> [results |-> results]]

\* the Search of the "documents" collection and the answer built from it
SearchPoints(s) ==
    /\ spc[s] = "search"
    /\ \E reply \in SearchReplies(documents_size, vector[s], sreq[s].limit) :
         /\ scalls' = [scalls EXCEPT ![s] =
                Append(@, SCall("qdrant_search", reply.ok, <<>>, <<>>, vector[s],
                                sreq[s].limit, reply.result))]
         /\ IF reply.ok
            THEN SRespond(s, jsonResults(Results(reply.result)))
            ELSE SRespond(s, jsonError(502, "qdrant search failed"))
    /\ UNCHANGED <<stores, uploads, sbody, sreq, vector>>

(* ---------------------------- specifications --------------------------- *)

\* concurrent requests, short record lists
Next ==
    \E r \in Reqs :
        \/ \E body \in ConcBodies : Upload(r, body)
        \/ UpsertCollection(r)
        \/ InsertHadith(r)
        \/ EmbedBatch(r)
        \/ UpsertBatch(r)

Spec == Init /\ [][Next]_vars

\* one request at a time, record lists up to the cap
NextSeq ==
    \/ \E body \in SeqBodies : Upload(1, body)
    \/ UpsertCollection(1)
    \/ InsertHadith(1)
    \/ EmbedBatch(1)
    \/ UpsertBatch(1)

SpecSeq == Init /\ [][NextSeq]_vars

\* concurrent search requests
NextSearch ==
    \E s \in Searches :
        \/ \E body \in SearchBodies : Search(s, body)
        \/ SearchEmbed(s)
        \/ SearchPoints(s)

SpecSearch == Init /\ [][NextSearch]_vars

(* ------------------------- vocabulary of the claims -------------------- *)

RECURSIVE SumLen(_)
\* total length of a sequence of sequences
SumLen(ss) == IF ss = <<>> THEN 0 ELSE Len(Head(ss)) + SumLen(Tail(ss))

RECURSIVE Concat(_)
\* concatenation of a sequence of sequences
Concat(ss) == IF ss = <<>> THEN <<>> ELSE Head(ss) \o Concat(Tail(ss))

CallsOf(r, op) == SelectSeq(calls[r], LAMBDA c : c.op = op)

OkCallsOf(r, op) == SelectSeq(calls[r], LAMBDA c : c.op = op /\ c.ok)

AllEmpty(h) == h.text_ar = <<>> /\ h.text_ru = <<>> /\ h.text_en = <<>>

Survivors(hs) == SelectSeq(hs, LAMBDA h : ~AllEmpty(h))

CeilDiv(n, d) == (n + d - 1) \div d

ValidationError(resp) == resp.status = 400

Success(resp) == resp.status = 200

\* the request of r went through the whole insert loop
Selected(r) ==
    /\ pc[r] \in {"embed", "upsert", "done"}
    /\ Len(rows[r]) = Len(req[r].hadiths)
    /\ Len(rows[r]) > 0

\* every point r has built or sent
PointsOf(r) ==
    Range(points[r]) \cup UNION {Range(calls[r][k].points) : k \in 1..Len(calls[r])}

(* -------------------------------- C1 ----------------------------------- *)

\* C1: the cap is inclusive at 2000. A request with more than 2000 records is
\* answered with a validation error without any remote call, the three stores
\* being as they were; a well-formed request with exactly 2000 records, a code
\* and a title is not answered with a validation error: it goes on to the
\* collection upsert.
C1_CapInclusive ==
    \A r \in Reqs :
        pc[r] # "idle" =>
            /\ Len(req[r].hadiths) > 2000 =>
                  /\ pc[r] = "done"
                  /\ ValidationError(response[r])
                  /\ calls[r] = <<>>
                  /\ hadith_collections = {} /\ hadiths = {} /\ documents = {}
            /\ ( /\ Len(req[r].hadiths) = 2000
                 /\ req[r].collection.code # ""
                 /\ req[r].collection.title # "" ) =>
                  /\ ~ValidationError(response[r])
                  /\ pc[r] = "upsert_collection" \/ Len(calls[r]) >= 1
                  /\ Len(calls[r]) >= 1 => calls[r][1].op = "upsert_collection"

\* a request of 2001 records was rejected, nothing having been called
C1_Witness ==
    \E r \in Reqs :
        /\ Len(req[r].hadiths) = 2001
        /\ pc[r] = "done"
        /\ ValidationError(response[r])
        /\ calls[r] = <<>>

(* -------------------------------- C2 ----------------------------------- *)

\* C2: when n >= 1 records survive text-selection and no remote call fails,
\* ceil(n/64) embedder calls are issued, all of 64 texts but the last, which
\* has the rest; the batches concatenated are the survivors' texts in
\* submission order; and the answer's embedded count is n.
C2_BatchingAndCount ==
    \A r \in Reqs :
        LET surv == Survivors(req[r].hadiths)
            n == Len(surv)
            em == CallsOf(r, "embed")
            nb == CeilDiv(n, 64)
        IN  ( /\ pc[r] = "done"
              /\ Success(response[r])
              /\ n >= 1
              /\ \A k \in 1..Len(calls[r]) : calls[r][k].ok ) =>
                /\ Len(em) = nb
                /\ \A b \in 1..(nb - 1) : Len(em[b].texts) = 64
                /\ Len(em[nb].texts) = n - 64 * (nb - 1)
                /\ Concat([b \in 1..Len(em) |-> em[b].texts]) =
                       [k \in 1..n |->
                          toPreferredText([ru |-> surv[k].text_ru, en |-> surv[k].text_en,
                                           ar |-> surv[k].text_ar]).text]
                /\ response[r].body.embedded = n

(* -------------------------------- C3 ----------------------------------- *)

\* C3: whenever callEmbedder returns without error for a non-empty input, the
\* vectors returned are as many as the texts sent, the i-th being that of the
\* i-th text.
C3_EmbedParallel ==
    \A r \in Reqs :
        \A k \in 1..Len(calls[r]) :
            LET c == calls[r][k]
            IN  (c.op = "embed" /\ c.ok /\ Len(c.texts) >= 1) =>
                    /\ Len(c.embeds) = Len(c.texts)
                    /\ \A m \in 1..Len(c.texts) : c.embeds[m] = Embedding(c.texts[m])

(* -------------------------------- C4 ----------------------------------- *)

\* the variant of record h that language tag lang names
Variant(h, lang) ==
    IF lang = "ru" THEN h.text_ru
    ELSE IF lang = "en" THEN h.text_en
    ELSE IF lang = "ar" THEN h.text_ar
    ELSE <<>>

\* the docs built for the k-th record of r's request
DocsOfRecord(r, k) == {m \in 1..Len(docs[r]) : docs[r][m].ID = rows[r][k].ID}

\* C4: text-selection takes ru if non-empty, else en if non-empty, else ar if
\* non-empty, else nothing: once the docs of a request are selected, a record
\* with some variant has exactly one doc, whose text is non-empty and is the
\* variant its language tag names, the tag being the first of ru, en, ar whose
\* variant is non-empty; a record with no variant has no doc.
C4_TextSelection ==
    \A r \in Reqs :
        Selected(r) =>
            \A k \in 1..Len(rows[r]) :
                LET h == req[r].hadiths[k]
                    ds == DocsOfRecord(r, k)
                IN  IF AllEmpty(h) THEN ds = {}
                    ELSE /\ Cardinality(ds) = 1
                         /\ \A m \in ds :
                              LET d == docs[r][m]
                              IN  /\ d.Text # <<>>
                                  /\ d.Lang \in {"ru", "en", "ar"}
                                  /\ d.Text = Variant(h, d.Lang)
                                  /\ h.text_ru # <<>> => d.Lang = "ru"
                                  /\ (h.text_ru = <<>> /\ h.text_en # <<>>) => d.Lang = "en"
                                  /\ (h.text_ru = <<>> /\ h.text_en = <<>>) => d.Lang = "ar"

\* docs were selected for a request with a record of all three variants, one
\* with en and ar only, and one with ar only or none
C4_Witness ==
    \E r \in Reqs :
        /\ Selected(r)
        /\ \E k \in 1..Len(rows[r]) :
             LET h == req[r].hadiths[k]
             IN  h.text_ru = <<>> /\ h.text_en # <<>> /\ h.text_ar # <<>>
        /\ \E k \in 1..Len(rows[r]) :
             LET h == req[r].hadiths[k]
             IN  h.text_ru # <<>> /\ h.text_en # <<>> /\ h.text_ar # <<>>
        /\ \E m \in 1..Len(docs[r]) : docs[r][m].Lang = "en"
        /\ \E m \in 1..Len(docs[r]) : docs[r][m].Lang = "ru"

(* -------------------------------- C5 ----------------------------------- *)

\* C5: a record with no text is inserted and counted, and never embedded: its
\* row is in the hadiths table with the three texts NULL (looked up for the
\* row just inserted while the insert loop runs, and for all rows once it
\* has ended), a success answer counts every submitted record as inserted,
\* no embedder call carries an empty text or more texts than there are
\* records with text, and no point built or upserted has the record's id as
\* origin_id.
C5_EmptyRecordNotEmbedded ==
    \A r \in Reqs :
        LET origins == {p.payload.origin_id : p \in PointsOf(r) \cup documents}
            em == CallsOf(r, "embed")
            checked == IF pc[r] = "insert_hadith" THEN {Len(rows[r])} \ {0}
                       ELSE 1..Len(rows[r])
        IN  /\ \A k \in checked :
                  AllEmpty(req[r].hadiths[k]) =>
                     /\ [id |-> rows[r][k].ID, collection_id |-> collectionID[r],
                         number |-> req[r].hadiths[k].number,
                         text_ar |-> <<>>, text_ru |-> <<>>, text_en |-> <<>>,
                         grade |-> nullStr(req[r].hadiths[k].grade),
                         topics |-> toTextArray(req[r].hadiths[k].topics)] \in hadiths
                     /\ rows[r][k].ID \notin origins
            /\ \A b \in 1..Len(em) : \A m \in 1..Len(em[b].texts) : em[b].texts[m] # <<>>
            /\ SumLen([b \in 1..Len(em) |-> em[b].texts]) <= Len(Survivors(req[r].hadiths))
            /\ (pc[r] = "done" /\ Success(response[r])) =>
                  response[r].body.inserted = Len(req[r].hadiths)

\* a request with a record without text and one with text was answered
\* with success, its point being in the index
C5_Witness ==
    \E r \in Reqs :
        /\ pc[r] = "done" /\ Success(response[r])
        /\ \E k \in 1..Len(rows[r]) : AllEmpty(req[r].hadiths[k])
        /\ response[r].body.embedded >= 1
        /\ response[r].body.inserted > response[r].body.embedded
        /\ documents # {}

(* -------------------------------- C6 ----------------------------------- *)

\* request r has its collection id
HasCollection(r) == pc[r] # "idle" /\ collectionID[r] # 0

C6_State ==
    /\ \A c1, c2 \in hadith_collections : c1.code = c2.code => c1 = c2
    /\ \A r \in Reqs :
          HasCollection(r) =>
              \E c \in hadith_collections :
                  c.code = req[r].collection.code /\ c.id = collectionID[r]
    /\ \A r1, r2 \in Reqs :
          ( /\ HasCollection(r1) /\ HasCollection(r2)
            /\ req[r1].collection.code = req[r2].collection.code ) =>
              collectionID[r1] = collectionID[r2]

C6_Step ==
    /\ \A r \in Reqs :
          (pc[r] = "upsert_collection" /\ pc'[r] = "insert_hadith") =>
              LET code == req[r].collection.code
              IN  /\ \E c \in hadith_collections' :
                        /\ c.code = code
                        /\ c.title = req[r].collection.title
                        /\ c.id = collectionID'[r]
                        /\ \A old \in hadith_collections : old.code = code => old.id = c.id
                  /\ {c \in hadith_collections' : c.code # code}
                        = {c \in hadith_collections : c.code # code}
    /\ (\A r \in Reqs : ~(pc[r] = "upsert_collection" /\ pc'[r] = "insert_hadith")) =>
          hadith_collections' = hadith_collections

\* C6: the collection upsert is idempotent on the code. At all times there is
\* at most one collection row per code and all requests naming a code hold the
\* id of its row; each applied upsert leaves the row of its code with its own
\* title and the id the code had before, the other rows as they were; and no
\* other step changes the table, so a row's title is that of the upsert
\* applied last.
C6_UpsertIdempotent == []C6_State /\ [][C6_Step]_vars

\* two requests with one code and two titles have both upserted: one row
C6_Witness ==
    /\ NumReqs >= 2
    /\ HasCollection(1) /\ HasCollection(2)
    /\ req[1].collection.code = req[2].collection.code
    /\ req[1].collection.title # req[2].collection.title
    /\ Cardinality(hadith_collections) = 1

(* -------------------------------- C7 ----------------------------------- *)

\* C7: when the insert of the k-th record fails the request is answered with
\* an error; the failed insert is its last remote call, so that the records
\* after the k-th are not inserted and nothing is embedded or upserted; the
\* k-1 rows inserted before and the collection row stay in the Record Store,
\* which holds exactly the rows whose insert succeeded.
C7_InsertFailureAborts ==
    /\ Cardinality(hadiths) = SumLen(rows)
    /\ \A r \in Reqs :
          (\E n \in 1..Len(calls[r]) : calls[r][n].op = "insert_hadith" /\ ~calls[r][n].ok) =>
              LET ins == CallsOf(r, "insert_hadith")
                  k == Len(ins)
              IN  /\ pc[r] = "done"
                  /\ response[r] = jsonError(500, "db insert hadith failed")
                  /\ k >= 1 /\ k <= Len(req[r].hadiths)
                  /\ ~ins[k].ok
                  /\ \A m \in 1..(k - 1) : ins[m].ok
                  /\ Len(calls[r]) = k + 1
                  /\ calls[r][1].op = "upsert_collection" /\ calls[r][1].ok
                  /\ calls[r][k + 1] = ins[k]
                  /\ CallsOf(r, "embed") = <<>>
                  /\ CallsOf(r, "qdrant_upsert") = <<>>
                  /\ Len(rows[r]) = k - 1
                  /\ \A m \in 1..(k - 1) :
                        HadithRow(ins[m].id, collectionID[r], req[r].hadiths[m]) \in hadiths
                  /\ \E c \in hadith_collections :
                        c.code = req[r].collection.code /\ c.id = collectionID[r]

\* the insert of a second record failed after the first was inserted
C7_Witness ==
    \E r \in Reqs :
        /\ pc[r] = "done"
        /\ response[r] = jsonError(500, "db insert hadith failed")
        /\ Len(rows[r]) >= 1
        /\ Len(req[r].hadiths) >= 2
        /\ \E h \in hadiths : h.id = rows[r][1].ID

(* -------------------------------- C8 ----------------------------------- *)

\* C8: when the embedder call of batch b fails the request is answered with
\* an error; the failed call is its last remote call, so that batch b is not
\* upserted and the batches after b are neither embedded nor upserted; the
\* points of the b-1 batches upserted before stay in the index, and the
\* inserted records in the Record Store.
C8_EmbedFailureAborts ==
    \A r \in Reqs :
        (\E n \in 1..Len(calls[r]) : calls[r][n].op = "embed" /\ ~calls[r][n].ok) =>
            LET em == CallsOf(r, "embed")
                up == CallsOf(r, "qdrant_upsert")
                b == Len(em)
            IN  /\ pc[r] = "done"
                /\ response[r] = jsonError(502, "embedder failed")
                /\ b >= 1
                /\ ~em[b].ok
                /\ \A m \in 1..(b - 1) : em[m].ok
                /\ calls[r][Len(calls[r])] = em[b]
                /\ em[b].texts = Texts(Batch(docs[r], (b - 1) * 64))
                /\ Len(up) = b - 1
                /\ \A m \in 1..(b - 1) : up[m].ok /\ Range(up[m].points) \subseteq documents
                /\ upserted[r] = SumLen([m \in 1..Len(up) |-> up[m].points])
                /\ Len(rows[r]) = Len(req[r].hadiths)
                /\ \A m \in 1..Len(rows[r]) :
                      HadithRow(rows[r][m].ID, collectionID[r], req[r].hadiths[m]) \in hadiths

\* the embedder failed on the third batch, the points of two batches stored
C8_Witness ==
    \E r \in Reqs :
        /\ pc[r] = "done"
        /\ response[r] = jsonError(502, "embedder failed")
        /\ Len(CallsOf(r, "embed")) = 3
        /\ Len(CallsOf(r, "qdrant_upsert")) = 2
        /\ Cardinality(documents) = 128

(* -------------------------------- C9 ----------------------------------- *)

\* the points of the upserts of r that succeeded, batch by batch
UpsertedPoints(r) ==
    LET up == OkCallsOf(r, "qdrant_upsert")
    IN  [m \in 1..Len(up) |-> up[m].points]

\* the ids the inserts of r that succeeded returned
InsertedIds(r) ==
    LET ins == OkCallsOf(r, "insert_hadith")
    IN  {ins[m].id : m \in 1..Len(ins)}

\* C9: in a success answer, inserted is the number of rows the request
\* inserted into the Record Store, which is the number of records submitted,
\* and embedded is the number of points the request upserted into the index
\* over all its batches.
C9_CountsAreEffects ==
    \A r \in Reqs :
        (pc[r] = "done" /\ Success(response[r])) =>
            /\ response[r].body.inserted = Len(OkCallsOf(r, "insert_hadith"))
            /\ response[r].body.inserted = Len(req[r].hadiths)
            /\ response[r].body.inserted =
                  Cardinality({h \in hadiths : h.id \in InsertedIds(r)})
            /\ response[r].body.embedded = SumLen(UpsertedPoints(r))
            /\ response[r].body.embedded =
                  Cardinality({p \in documents :
                      \E m \in 1..Len(UpsertedPoints(r)) : p \in Range(UpsertedPoints(r)[m])})

\* a success answer that counts fewer points than records with text, the
\* embedder having returned fewer vectors than texts
C9_Witness ==
    \E r \in Reqs :
        /\ pc[r] = "done" /\ Success(response[r])
        /\ response[r].body.embedded >= 1
        /\ response[r].body.embedded < Len(docs[r])

(* -------------------------------- C10 ---------------------------------- *)

\* the rows r inserted, as stored
StoredRows(r) ==
    {HadithRow(rows[r][k].ID, collectionID[r], req[r].hadiths[k]) : k \in 1..Len(rows[r])}

\* C10: whatever the interleaving of the requests, the stores hold the union
\* of their effects: at most one collection row per code, whose id all
\* requests naming the code hold; the hadiths table is the union of the rows
\* the requests inserted, each once; the index is the union of the points of
\* the upserts that succeeded, each under an identifier of its own, so that
\* no upsert has replaced or removed a point.
C10_UnionOfEffects ==
    /\ \A c1, c2 \in hadith_collections : c1.code = c2.code => c1 = c2
    /\ \A r1, r2 \in Reqs :
          ( /\ HasCollection(r1) /\ HasCollection(r2)
            /\ req[r1].collection.code = req[r2].collection.code ) =>
              collectionID[r1] = collectionID[r2]
    /\ hadiths = UNION {StoredRows(r) : r \in Reqs}
    /\ Cardinality(hadiths) = SumLen(rows)
    /\ documents = UNION {Range(Concat(UpsertedPoints(r))) : r \in Reqs}
    /\ Cardinality({p.id : p \in documents})
          = SumLen([r \in Reqs |-> Concat(UpsertedPoints(r))])

\* two requests into one collection, their inserts interleaved, both
\* answered with success and both with points in the index
C10_Witness ==
    /\ NumReqs >= 2
    /\ pc[1] = "done" /\ Success(response[1]) /\ response[1].body.embedded >= 1
    /\ pc[2] = "done" /\ Success(response[2]) /\ response[2].body.embedded >= 1
    /\ req[1].collection.code = req[2].collection.code
    /\ Len(rows[1]) = 2 /\ Len(rows[2]) = 2
    /\ rows[1][1].ID < rows[2][1].ID
    /\ rows[2][1].ID < rows[1][2].ID
    /\ rows[1][2].ID < rows[2][2].ID
    /\ Cardinality(hadith_collections) = 1
    /\ Cardinality(documents) = response[1].body.embedded + response[2].body.embedded

(* -------------------------------- C11 ---------------------------------- *)

\* C11: every vector in the index has 768 components, the size main declares
\* for "documents"; and a request to which the embedder returned a vector of
\* another size is not answered with success.
C11_DeclaredDimension ==
    /\ \A p \in documents : p.vector.dim = 768
    /\ \A r \in Reqs :
          (\E n \in 1..Len(calls[r]) :
              /\ calls[r][n].op = "embed" /\ calls[r][n].ok
              /\ \E m \in 1..Len(calls[r][n].embeds) : calls[r][n].embeds[m].dim # 768) =>
                  ~(pc[r] = "done" /\ Success(response[r]))

(* -------------------------------- C15 ---------------------------------- *)

\* every record of the request of r has its three texts empty
NoSurvivor(r) ==
    /\ pc[r] # "idle"
    /\ Len(req[r].hadiths) >= 1
    /\ \A k \in 1..Len(req[r].hadiths) : AllEmpty(req[r].hadiths[k])

\* C15: a request none of whose records has a text never calls the embedder
\* and never upserts into the index; when the collection upsert and all its
\* inserts have returned without error it is answered with success, inserted
\* being the number of records submitted and embedded 0; and a success
\* answer to such a request is always that one.
C15_NoSurvivors ==
    \A r \in Reqs :
        NoSurvivor(r) =>
            /\ CallsOf(r, "embed") = <<>>
            /\ CallsOf(r, "qdrant_upsert") = <<>>
            /\ pc[r] \notin {"embed", "upsert"}
            /\ ( /\ Len(OkCallsOf(r, "insert_hadith")) = Len(req[r].hadiths)
                 /\ Len(OkCallsOf(r, "upsert_collection")) = 1 ) =>
                   /\ pc[r] = "done"
                   /\ response[r] = jsonCounts(Len(req[r].hadiths), 0)
            /\ (pc[r] = "done" /\ Success(response[r])) =>
                   /\ response[r] = jsonCounts(Len(req[r].hadiths), 0)
                   /\ Len(OkCallsOf(r, "insert_hadith")) = Len(req[r].hadiths)

\* a request of two records without text was answered with success
C15_Witness ==
    \E r \in Reqs :
        /\ NoSurvivor(r)
        /\ Len(req[r].hadiths) = 2
        /\ pc[r] = "done"
        /\ response[r] = jsonCounts(2, 0)
        /\ Len(calls[r]) = 3
        /\ documents = {}

(* -------------------------------- C16 ---------------------------------- *)

\* s is a prefix of t
IsPrefix(s, t) == Len(s) <= Len(t) /\ s = SubSeq(t, 1, Len(s))

\* the rows of r whose record has a text, in submission order
SurvivingRows(r) ==
    SelectSeq(rows[r], LAMBDA rw : rw.TextAr # <<>> \/ rw.TextRu # <<>> \/ rw.TextEn # <<>>)

\* C16: in a request answered with success, the d-th surviving record has
\* exactly one point among those the request upserted: the one at its place
\* (batch (d-1) div 64 + 1, position (d-1) mod 64 + 1), which is in the
\* index; its payload has the record's id as origin_id, its display number,
\* the language text-selection chose, a prefix of the selected text as
\* snippet and the request's collection code; and its vector is the one the
\* embedder returned at that position of that batch.
C16_PointPerSurvivor ==
    \A r \in Reqs :
        (pc[r] = "done" /\ Success(response[r])) =>
            LET surv == SurvivingRows(r)
                up == UpsertedPoints(r)
                em == OkCallsOf(r, "embed")
                all == Concat(up)
            IN  \A d \in 1..Len(surv) :
                    LET b == ((d - 1) \div 64) + 1
                        k == ((d - 1) % 64) + 1
                        rw == surv[d]
                        sel == toPreferredText([ru |-> rw.TextRu, en |-> rw.TextEn,
                                                ar |-> rw.TextAr])
                    IN  /\ Cardinality({n \in 1..Len(all) :
                                           all[n].payload.origin_id = rw.ID}) = 1
                        /\ b <= Len(up) /\ b <= Len(em)
                        /\ k <= Len(up[b]) /\ k <= Len(em[b].embeds)
                        /\ up[b][k] \in documents
                        /\ up[b][k].payload.origin_id = rw.ID
                        /\ up[b][k].payload.number = rw.Number
                        /\ up[b][k].payload.lang = sel.lang
                        /\ IsPrefix(up[b][k].payload.snippet, sel.text)
                        /\ up[b][k].payload.collection_code = req[r].collection.code
                        /\ up[b][k].vector = em[b].embeds[k]

(* -------------------------------- C17 ---------------------------------- *)

\* the calls of r so far follow the protocol: the collection upsert, the
\* inserts of the records in submission order, then per batch the embedder
\* call of that batch and the upsert of the points built from its vectors;
\* and none but the last has failed
C17_Protocol(r) ==
    LET cs == calls[r]
        N == Len(req[r].hadiths)
    IN  /\ \A n \in 1..Len(cs) :
              /\ n < Len(cs) => cs[n].ok
              /\ IF n = 1 THEN cs[n].op = "upsert_collection"
                 ELSE IF n <= N + 1
                 THEN /\ cs[n].op = "insert_hadith"
                      /\ cs[n].ok => /\ n - 1 <= Len(rows[r])
                                     /\ rows[r][n - 1] = Row(cs[n].id, req[r].hadiths[n - 1])
                 ELSE LET b == (n - N - 2) \div 2
                      IN  IF (n - N - 2) % 2 = 0
                          THEN /\ cs[n].op = "embed"
                               /\ 64 * b < Len(docs[r])
                               /\ cs[n].texts = Texts(Batch(docs[r], 64 * b))
                          ELSE /\ cs[n].op = "qdrant_upsert"
                               /\ cs[n - 1].op = "embed"
                               /\ [k \in 1..Len(cs[n].points) |-> cs[n].points[k].vector]
                                      = cs[n - 1].embeds
        /\ Len(cs) > N + 1 => Len(rows[r]) = N
        /\ pc[r] = "idle" => cs = <<>>

\* a step issues at most one call, of one request, and only a request that
\* is not answered issues one
C17_Step ==
    /\ \A r \in Reqs :
          \/ calls'[r] = calls[r]
          \/ /\ pc[r] # "done"
             /\ Len(calls'[r]) = Len(calls[r]) + 1
             /\ SubSeq(calls'[r], 1, Len(calls[r])) = calls[r]
    /\ \A r1, r2 \in Reqs :
          (calls'[r1] # calls[r1] /\ calls'[r2] # calls[r2]) => r1 = r2

\* C17: within one request the remote calls are strictly sequential: one
\* collection upsert first, then one insert per record in submission order,
\* all before the first embedder call, then per batch in order one embedder
\* call and at most one upsert of that batch; a step issues one call; no call
\* is issued after a failed call, so that none is retried.
C17_SequentialProtocol == [](\A r \in Reqs : C17_Protocol(r)) /\ [][C17_Step]_vars

\* a request of three batches was answered with success after 1 + 130 + 6
\* calls
C17_Witness ==
    \E r \in Reqs :
        /\ pc[r] = "done" /\ Success(response[r])
        /\ Len(req[r].hadiths) = 130
        /\ Len(calls[r]) = 137
        /\ Len(CallsOf(r, "embed")) = 3
        /\ Len(CallsOf(r, "qdrant_upsert")) = 3

(* -------------------------------- C19 ---------------------------------- *)

\* the points r has sent to the index, in the order sent
SentPoints(r) ==
    LET up == CallsOf(r, "qdrant_upsert")
    IN  Concat([n \in 1..Len(up) |-> up[n].points])

\* C19: whatever the interleaving of the requests, their outcomes and the
\* embedder's answers, every point in the index has as origin_id the id of a
\* row of the hadiths table one of whose texts is not NULL, and the points a
\* request has sent to the index have origin_ids different from each other.
C19_CrossStore ==
    /\ \A p \in documents :
          \E h \in hadiths :
              /\ h.id = p.payload.origin_id
              /\ h.text_ar # <<>> \/ h.text_ru # <<>> \/ h.text_en # <<>>
    /\ \A r \in Reqs :
          LET sent == SentPoints(r)
          IN  Cardinality({sent[n].payload.origin_id : n \in 1..Len(sent)}) = Len(sent)

\* one request was answered with success having a point for one of its two
\* records with text, the embedder having returned one vector; the other
\* ended in the panic of a reply with a vector too many
C19_Witness ==
    \E r1, r2 \in Reqs :
        /\ pc[r1] = "done" /\ Success(response[r1])
        /\ Len(docs[r1]) = 2 /\ response[r1].body.embedded = 1
        /\ Cardinality(documents) = 1
        /\ pc[r2] = "done" /\ response[r2] = jsonError(500, "Internal Server Error")
        /\ Cardinality(hadiths) >= 3

(* -------------------------------- C20 ---------------------------------- *)

\* C20: when the upsert of batch b fails the request is answered with an
\* error that carries no counts; the failed upsert is its last remote call,
\* so that the batches after b are neither embedded nor upserted; the points
\* of batch b are not in the request's count; the points of the b-1 batches
\* before stay in the index, and the inserted records in the Record Store.
C20_UpsertFailureAborts ==
    \A r \in Reqs :
        (\E n \in 1..Len(calls[r]) : calls[r][n].op = "qdrant_upsert" /\ ~calls[r][n].ok) =>
            LET em == CallsOf(r, "embed")
                up == CallsOf(r, "qdrant_upsert")
                b == Len(up)
            IN  /\ pc[r] = "done"
                /\ response[r] = jsonError(502, "qdrant upsert failed")
                /\ DOMAIN response[r].body = {"error"}
                /\ ~up[b].ok
                /\ \A m \in 1..(b - 1) : up[m].ok
                /\ calls[r][Len(calls[r])] = up[b]
                /\ Len(em) = b
                /\ em[b].texts = Texts(Batch(docs[r], (b - 1) * 64))
                /\ \A m \in 1..(b - 1) : Range(up[m].points) \subseteq documents
                /\ upserted[r] = SumLen([m \in 1..(b - 1) |-> up[m].points])
                /\ Len(rows[r]) = Len(req[r].hadiths)
                /\ \A m \in 1..Len(rows[r]) :
                      HadithRow(rows[r][m].ID, collectionID[r], req[r].hadiths[m]) \in hadiths

\* the upsert of the third batch failed, the points of two batches stored
C20_Witness ==
    \E r \in Reqs :
        /\ pc[r] = "done"
        /\ response[r] = jsonError(502, "qdrant upsert failed")
        /\ Len(CallsOf(r, "embed")) = 3
        /\ Len(CallsOf(r, "qdrant_upsert")) = 3
        /\ Len(calls[r][Len(calls[r])].points) >= 1
        /\ upserted[r] = 128
        /\ Cardinality(documents) = 128

(* -------------------------------- C12 ---------------------------------- *)

\* C12: a search whose query is empty is answered with a validation error,
\* whatever its limit, and has issued no remote call: it has called neither
\* the embedder nor the index.
C12_EmptyQueryRejected ==
    \A s \in Searches :
        (spc[s] # "idle" /\ ~sbody[s].malformed /\ sbody[s].query = <<>>) =>
            /\ spc[s] = "done"
            /\ ValidationError(sresponse[s])
            /\ sresponse[s] = jsonError(400, "empty query")
            /\ scalls[s] = <<>>

\* searches of "" with limit 5 and with limit 51 were both refused
C12_Witness ==
    \E s1, s2 \in Searches :
        /\ ~sbody[s1].malformed /\ sbody[s1].query = <<>> /\ sbody[s1].limit = 5
        /\ spc[s1] = "done" /\ ValidationError(sresponse[s1]) /\ scalls[s1] = <<>>
        /\ ~sbody[s2].malformed /\ sbody[s2].query = <<>> /\ sbody[s2].limit = 51
        /\ spc[s2] = "done" /\ ValidationError(sresponse[s2]) /\ scalls[s2] = <<>>

(* -------------------------------- C13 ---------------------------------- *)

\* C13: every Search sent to the index for a request carries the limit the
\* request asked for when that is in 1..50, and 10 otherwise; so the limit
\* sent is always in 1..50.
C13_LimitClamped ==
    \A s \in Searches :
        \A n \in 1..Len(scalls[s]) :
            scalls[s][n].op = "qdrant_search" =>
                /\ sbody[s].query # <<>>
                /\ scalls[s][n].limit =
                      IF sbody[s].limit \in 1..50 THEN sbody[s].limit ELSE 10
                /\ scalls[s][n].limit \in 1..50

\* a search with limit 0 was sent with limit 10, one with limit 50 with 50
C13_Witness ==
    \E s1, s2 \in Searches :
        /\ sbody[s1].limit = 0
        /\ \E n \in 1..Len(scalls[s1]) :
              scalls[s1][n].op = "qdrant_search" /\ scalls[s1][n].limit = 10
        /\ sbody[s2].limit = 50
        /\ \E n \in 1..Len(scalls[s2]) :
              scalls[s2][n].op = "qdrant_search" /\ scalls[s2][n].limit = 50

(* -------------------------------- C14 ---------------------------------- *)

\* the search s had a query and was answered with a failure
SearchFailed(s) ==
    /\ spc[s] = "done"
    /\ ~sbody[s].malformed /\ sbody[s].query # <<>>
    /\ ~Success(sresponse[s])

\* C14: the failures of searches with a valid query are of one class, the
\* HTTP status being the class: any two such searches that failed, in the
\* embedder call, for want of a vector or in the Search, were answered with
\* the same status; and a failure carries no results.
C14_OneFailureClass ==
    /\ \A s \in Searches :
          SearchFailed(s) => DOMAIN sresponse[s].body = {"error"}
    /\ \A s1, s2 \in Searches :
          (SearchFailed(s1) /\ SearchFailed(s2)) =>
              sresponse[s1].status = sresponse[s2].status

(* -------------------------------- C18 ---------------------------------- *)

RECURSIVE DigitsValue(_)
\* the number a string of decimal digits writes
DigitsValue(s) ==
    IF s = <<>> THEN 0 ELSE 10 * DigitsValue(SubSeq(s, 1, Len(s) - 1)) + (s[Len(s)] - 48)

\* result res is the point pt the index returned: its id as a string, its
\* score and its payload
SamePoint(res, pt) ==
    /\ res.Score = pt.score
    /\ res.Payload = pt.payload
    /\ pt.id.kind = "uuid" => res.ID = pt.id.uuid
    /\ pt.id.kind = "none" => res.ID = <<>>
    /\ pt.id.kind = "num" =>
          /\ res.ID # <<>>
          /\ \A k \in 1..Len(res.ID) : res.ID[k] \in 48..57
          /\ DigitsValue(res.ID) = pt.id.num

\* C18: a search answered with success has issued two calls: one embedder
\* call with the query as its only text, then one Search, with the first
\* vector the embedder returned; and its results are the points the Search
\* returned, as many and in the same order, each with its score and its
\* payload as returned.
C18_SearchPassThrough ==
    \A s \in Searches :
        (spc[s] = "done" /\ Success(sresponse[s])) =>
            /\ Len(scalls[s]) = 2
            /\ scalls[s][1].op = "embed" /\ scalls[s][1].ok
            /\ scalls[s][1].texts = <<sbody[s].query>>
            /\ Len(scalls[s][1].embeds) >= 1
            /\ scalls[s][2].op = "qdrant_search" /\ scalls[s][2].ok
            /\ scalls[s][2].vector = scalls[s][1].embeds[1]
            /\ DOMAIN sresponse[s].body = {"results"}
            /\ LET res == sresponse[s].body.results
                   got == scalls[s][2].result
               IN  /\ Len(res) = Len(got)
                   /\ \A k \in 1..Len(got) : SamePoint(res[k], got[k])

\* a search was answered with the three points the index returned, whose
\* scores 5, 9, 7 are in no order, the first with a uuid, the second with
\* the number 420 and the third without id
C18_Witness ==
    \E s \in Searches :
        /\ spc[s] = "done" /\ Success(sresponse[s])
        /\ Len(sresponse[s].body.results) = 3
        /\ sresponse[s].body.results[1].ID = <<117, 49>>
        /\ sresponse[s].body.results[2].ID = <<52, 50, 48>>
        /\ sresponse[s].body.results[3].ID = <<>>
        /\ sresponse[s].body.results[1].Score = 5
        /\ sresponse[s].body.results[2].Score = 9
        /\ sresponse[s].body.results[3].Score = 7

====
